---- MODULE Spec2Model ----
(***************************************************************************)
(* A model of the backtesting toy: the frictionless Broker, the            *)
(* Backtester.run loop, and the windowed moving-average strategy in its    *)
(* streaming mode (generate_signal) and its batch mode (signals).          *)
(*                                                                         *)
(* Numbers.  Prices, quantities and cash are modelled as integers, that    *)
(* is, as values on which Python's arithmetic is exact (ints, and floats   *)
(* holding small integral values).  A mean is kept as the pair             *)
(* (sum, count) and compared by cross-multiplication, which agrees with    *)
(* the float comparison  price > sum/count  for such values; a count of 0  *)
(* is numpy's nan (mean of an empty slice), against which every comparison *)
(* is false.  Rounding of chained float arithmetic is outside the model.   *)
(*                                                                         *)
(* Indices.  Python sequences are 0-based, TLA+ sequences 1-based: the     *)
(* Python element  s[j]  is  s[j+1]  here.  Loop counters keep their       *)
(* Python (0-based) values.                                                *)
(***************************************************************************)
EXTENDS Integers, Sequences, FiniteSets, TLC

VARIABLES
    cash,              \* Broker.cash
    position,          \* Broker.position
    log,               \* history: the market_order calls made, each with the state it met
    pc,                \* Backtester.run: "idle", "loop" (inside the for), "done" (returned)
    prices,            \* Backtester.run: the prices argument (values, in order)
    index,             \* Backtester.run: prices.index (the labels of the prices, in order)
    signals,           \* Backtester.run: signals = self.strategy.signals(prices)
    i,                 \* Backtester.run: the loop variable i (0-based)
    cash_history,      \* Backtester.run: cash_history
    position_history,  \* Backtester.run: position_history
    equity_history,    \* Backtester.run: equity_history
    results,           \* Backtester.run: the rows of the returned DataFrame
    results_index,     \* Backtester.run: the index of the returned DataFrame
    runs,              \* the run calls made on the Backtester so far
    orders_before,     \* the orders the broker had taken when the latest run was called
    start,             \* history: the broker's state when run was called
    window,            \* WindowedMovingAverageStrategy.window
    past_prices,       \* WindowedMovingAverageStrategy.past_prices (dict symbol -> list of ticks)
    calls,             \* history: the generate_signal calls made, each with the Order returned
    bpc,               \* signals(prices): "idle", "loop", "done"
    series,            \* signals(prices): the prices argument
    out,               \* signals(prices): the signals computed so far
    acc,               \* signals(prices): the running sum of the trailing window
    portfolio,         \* Portfolio: its cash, positions (dict symbol -> Position) and order_history
    initial_cash,      \* history: the initial_cash the Portfolio was constructed with
    pcalls,            \* history: the orders given to update_position, in call order
    returned,          \* history: the latest Portfolio call, with what it returned or raised
    lpc,               \* load_prices_from_generator: where the call is (idle, loop, done)
    num_ticks,         \* load_prices_from_generator: the num_ticks argument
    gen,               \* the tick generator: its symbol and the ticks it has yielded
    timestamps,        \* load_prices_from_generator: the timestamps list
    tick_prices,       \* load_prices_from_generator: the prices list
    loaded             \* load_prices_from_generator: the Series returned

brokerVars == <<cash, position, log>>
runVars == <<pc, prices, index, signals, i, cash_history, position_history, equity_history,
             results, results_index, start, runs, orders_before>>
streamVars == <<past_prices, calls>>
batchVars == <<bpc, series, out, acc>>
portfolioVars == <<portfolio, initial_cash, pcalls, returned>>
loaderVars == <<lpc, num_ticks, gen, timestamps, tick_prices, loaded>>
vars == <<cash, position, log, pc, prices, signals, i, cash_history, position_history,
          equity_history, results, start, window, past_prices, calls, bpc, series, out, acc,
          portfolio, initial_cash, pcalls, returned, index, results_index, runs, orders_before,
          lpc, num_ticks, gen, timestamps, tick_prices, loaded>>

----------------------------------------------------------------------------
(* Bounds of the model *)

MaxOrders == 3      \* market_order calls made directly on a broker
MaxQty == 2         \* largest order quantity
MaxPrice == 2       \* largest price (broker orders, run prices, batch prices)
MaxLen == 3         \* longest price series given to run
MaxTicks == 3       \* generate_signal calls made on a strategy
MaxTickPrice == 2   \* largest price of a streamed tick
MaxTime == 2        \* latest timestamp of a streamed tick
MaxWindow == 3      \* largest strategy window
MaxBatchLen == 4    \* longest price series given to signals(prices)
MaxUpdates == 3     \* update_position calls made on a portfolio
MaxOrderQty == 2    \* largest quantity of an order given to a portfolio
MaxOrderPrice == 2  \* largest price of an order given to a portfolio
MaxRuns == 2        \* run calls made on one Backtester
MaxNumTicks == 3    \* largest num_ticks given to load_prices_from_generator
MaxGenTime == 2     \* latest timestamp of a generated tick
MaxGenPrice == 2    \* largest price of a generated tick
MaxPnlDepth == 1    \* most orders a portfolio has taken when calculate_pnl is called on it

DefaultCash == 1000000
TestCash == 100000

RECURSIVE Sum(_)
Sum(s) == IF s = <<>> THEN 0 ELSE s[1] + Sum(Tail(s))

Last(s) == s[Len(s)]

SeqsUpTo(S, n) == UNION {[1..m -> S] : m \in 0..n}

EmptyDict == [s \in {} |-> <<>>]

----------------------------------------------------------------------------
(* Broker *)

NoError == [type |-> "None", msg |-> ""]
ValueError(m) == [type |-> "ValueError", msg |-> m]

\* The side strings tried: the two the broker knows and another (the comparison
\* is case-sensitive).
Sides == {"buy", "sell", "BUY"}
Quantities == 0..MaxQty
Prices == 1..MaxPrice
InitCash == {0, DefaultCash}

\* mutant of Broker
Broker_as_constructed(c, p) == [cash |-> DefaultCash, position |-> 0]

Broker(c, p) == [cash |-> c, position |-> p]

\* mutants of market_order
market_order_error_charges(b, side, qty, price) ==
    IF side = "buy"
    THEN [cash |-> b.cash - qty * price, position |-> b.position + qty, raised |-> NoError]
    ELSE IF side = "sell"
    THEN [cash |-> b.cash + qty * price, position |-> b.position - qty, raised |-> NoError]
    ELSE [cash |-> b.cash - qty * price, position |-> b.position,
          raised |-> ValueError("Unknown side: " \o side)]

market_order_slippage(b, side, qty, price) ==
    IF side = "buy"
    THEN [cash |-> b.cash - qty * (price + 1), position |-> b.position + qty,
          raised |-> NoError]
    ELSE IF side = "sell"
    THEN [cash |-> b.cash + qty * (price - 1), position |-> b.position - qty,
          raised |-> NoError]
    ELSE [cash |-> b.cash, position |-> b.position,
          raised |-> ValueError("Unknown side: " \o side)]

market_order_error_moves_position(b, side, qty, price) ==
    IF side = "buy"
    THEN [cash |-> b.cash - qty * price, position |-> b.position + qty, raised |-> NoError]
    ELSE IF side = "sell"
    THEN [cash |-> b.cash + qty * price, position |-> b.position - qty, raised |-> NoError]
    ELSE [cash |-> b.cash, position |-> b.position - qty,
          raised |-> ValueError("Unknown side: " \o side)]

market_order_sell_as_buy(b, side, qty, price) ==
    IF side = "buy"
    THEN [cash |-> b.cash - qty * price, position |-> b.position + qty, raised |-> NoError]
    ELSE IF side = "sell"
    THEN [cash |-> b.cash - qty * price, position |-> b.position - qty, raised |-> NoError]
    ELSE [cash |-> b.cash, position |-> b.position,
          raised |-> ValueError("Unknown side: " \o side)]

market_order_silent(b, side, qty, price) ==
    IF side = "buy"
    THEN [cash |-> b.cash - qty * price, position |-> b.position + qty, raised |-> NoError]
    ELSE IF side = "sell"
    THEN [cash |-> b.cash + qty * price, position |-> b.position - qty, raised |-> NoError]
    ELSE [cash |-> b.cash, position |-> b.position, raised |-> NoError]

market_order_no_short(b, side, qty, price) ==
    IF side = "buy"
    THEN [cash |-> b.cash - qty * price, position |-> b.position + qty, raised |-> NoError]
    ELSE IF side = "sell"
    THEN IF b.position >= qty
         THEN [cash |-> b.cash + qty * price, position |-> b.position - qty, raised |-> NoError]
         ELSE [cash |-> b.cash + b.position * price, position |-> 0, raised |-> NoError]
    ELSE [cash |-> b.cash, position |-> b.position,
          raised |-> ValueError("Unknown side: " \o side)]

market_order_fee(b, side, qty, price) ==
    IF side = "buy"
    THEN [cash |-> b.cash - qty * price - 1, position |-> b.position + qty, raised |-> NoError]
    ELSE IF side = "sell"
    THEN [cash |-> b.cash + qty * price - 1, position |-> b.position - qty, raised |-> NoError]
    ELSE [cash |-> b.cash, position |-> b.position,
          raised |-> ValueError("Unknown side: " \o side)]

\* Broker.market_order: the broker's fields after the call and what it raised
market_order(b, side, qty, price) ==
    IF side = "buy"
    THEN [cash |-> b.cash - qty * price, position |-> b.position + qty, raised |-> NoError]
    ELSE IF side = "sell"
    THEN [cash |-> b.cash + qty * price, position |-> b.position - qty, raised |-> NoError]
    ELSE [cash |-> b.cash, position |-> b.position,
          raised |-> ValueError("Unknown side: " \o side)]

\* One entry of log: the call's arguments, the fields it met, what it raised
Call(side, qty, price, r) ==
    [side |-> side, qty |-> qty, price |-> price,
     cash |-> cash, position |-> position, raised |-> r.raised]

\* A caller places one order on the broker
MarketOrder ==
    /\ Len(log) < MaxOrders
    /\ \E side \in Sides, qty \in Quantities, price \in Prices :
          LET r == market_order(Broker(cash, position), side, qty, price)
          IN  /\ cash' = r.cash
              /\ position' = r.position
              /\ log' = Append(log, Call(side, qty, price, r))
    /\ UNCHANGED <<loaderVars, portfolioVars, runVars, window, streamVars, batchVars>>

\* The fields after the k-th logged call: those the next call met, or the current ones
CashAfter(k) == IF k < Len(log) THEN log[k + 1].cash ELSE cash
PositionAfter(k) == IF k < Len(log) THEN log[k + 1].position ELSE position

----------------------------------------------------------------------------
(* Backtester *)

\* The values a strategy's signals take
Signals == {-1, 0, 1}

\* The price series and the aligned signal series a strategy returns for it.  The
\* strategy is any object with a signals(prices) method, so every aligned series
\* over Signals is tried.
PriceSeries == SeqsUpTo(Prices, MaxLen)
SignalSeries(n) == [1..n -> Signals]

\* The index of a series of n prices: consecutive labels from a first one (0 for
\* the default RangeIndex, a date for a date_range)
IndexStarts == {0, 10}
IndexSeries(n) == {[k \in 1..n |-> first + k - 1] : first \in IndexStarts}

\* The states of the broker handed to the Backtester: as constructed, or having
\* already traded (a position of one share long or short).
StartPositions == {-1, 0, 1}

\* mutants of StepSignal
StepSignal_no_lag(j, sigs) == sigs[j + 1]

StepSignal_trades_first_day(j, sigs) == IF j = 0 THEN sigs[1] ELSE sigs[j]

StepSignal_wraps_to_last(j, sigs) ==
    IF j = 0 THEN (IF sigs = <<>> THEN 0 ELSE sigs[Len(sigs)]) ELSE sigs[j]

\* The signal acted on at step j (0-based): none on the first day, else signals.iloc[j-1]
StepSignal(j, sigs) == IF j = 0 THEN 0 ELSE sigs[j]

\* The side of the order a signal asks for ("" for none)
SignalSide(signal) == IF signal = 1 THEN "buy" ELSE IF signal = -1 THEN "sell" ELSE ""

\* "Trade at close t": one share bought or sold at this step's price, or nothing
Trade(b, signal, price) ==
    IF SignalSide(signal) # ""
    THEN market_order(b, SignalSide(signal), 1, price)
    ELSE [cash |-> b.cash, position |-> b.position, raised |-> NoError]

\* mutant of Equity
Equity_position_unpriced(b, price) == b.cash + b.position

\* self.broker.cash + self.broker.position * price
Equity(b, price) == b.cash + b.position * price

\* run(prices) is called: the signals are computed and the histories start empty.
\* A further run on the same Backtester is given the series of the first, for
\* which the strategy returns the same signals.
RunBegin ==
    /\ pc = "idle" \/ (pc = "done" /\ runs < MaxRuns)
    /\ IF pc = "idle"
       THEN /\ \E p \in PriceSeries :
                  \E s \in SignalSeries(Len(p)) :
                      /\ prices' = p
                      /\ signals' = s
            /\ index' \in IndexSeries(Len(prices'))
       ELSE UNCHANGED <<prices, signals, index>>
    /\ runs' = runs + 1
    /\ orders_before' = Len(log)
    /\ cash_history' = <<>>
    /\ position_history' = <<>>
    /\ equity_history' = <<>>
    /\ i' = 0
    /\ start' = Broker(cash, position)
    /\ pc' = "loop"
    /\ UNCHANGED <<loaderVars, portfolioVars, brokerVars, results, results_index, window, streamVars,
                   batchVars>>

\* One iteration of  for i in range(len(prices))
RunStep ==
    /\ pc = "loop"
    /\ i < Len(prices)
    /\ LET price == prices[i + 1]
           signal == StepSignal(i, signals)
           r == Trade(Broker(cash, position), signal, price)
       IN  /\ cash' = r.cash
           /\ position' = r.position
           /\ log' = IF SignalSide(signal) # ""
                     THEN Append(log, Call(SignalSide(signal), 1, price, r))
                     ELSE log
           /\ cash_history' = Append(cash_history, r.cash)
           /\ position_history' = Append(position_history, r.position)
           /\ equity_history' = Append(equity_history, Equity(r, price))
    /\ i' = i + 1
    /\ UNCHANGED <<loaderVars, portfolioVars, pc, prices, index, signals, results, results_index, start,
                   runs, orders_before, window, streamVars, batchVars>>

\* The rows of the DataFrame built from prices.values and the three histories
ResultsFrame ==
    [k \in 1..Len(prices) |->
        [price |-> prices[k], cash |-> cash_history[k],
         position |-> position_history[k], equity |-> equity_history[k]]]

\* mutant of ResultsIndex
ResultsIndex_renumbered(idx) == [k \in 1..Len(idx) |-> k - 1]

\* index=prices.index
ResultsIndex(idx) == idx

\* The loop is over: the results are built and returned
RunReturn ==
    /\ pc = "loop"
    /\ i = Len(prices)
    /\ results' = ResultsFrame
    /\ results_index' = ResultsIndex(index)
    /\ pc' = "done"
    /\ UNCHANGED <<loaderVars, portfolioVars, brokerVars, prices, index, signals, i, cash_history,
                   position_history, equity_history, start, runs, orders_before, window,
                   streamVars, batchVars>>

----------------------------------------------------------------------------
(* WindowedMovingAverageStrategy, streaming mode *)

Symbols == {"AAPL", "MSFT"}

\* MarketDataPoint: a frozen record compared field by field
Ticks == [timestamp : 1..MaxTime, symbol : Symbols, price : 1..MaxTickPrice]

\* The windows a strategy is constructed with; __init__ stores any integer
Windows == -1..MaxWindow

\* mutant of update_price
update_price_always_appends(pp, tick) ==
    IF tick.symbol \notin DOMAIN pp
    THEN pp @@ (tick.symbol :> <<tick>>)
    ELSE [pp EXCEPT ![tick.symbol] = Append(@, tick)]

\* update_price: the dict of stored ticks after the call
update_price(pp, tick) ==
    IF tick.symbol \notin DOMAIN pp
    THEN pp @@ (tick.symbol :> <<tick>>)
    ELSE IF Last(pp[tick.symbol]) # tick
         THEN [pp EXCEPT ![tick.symbol] = Append(@, tick)]
         ELSE pp

\* mutant of PriceList: the prices of every symbol, one symbol after the other
PriceList_every_symbol(pp, symbol) ==
    LET of(sym) == IF sym \in DOMAIN pp
                   THEN [k \in 1..Len(pp[sym]) |-> pp[sym][k].price] ELSE <<>>
        other == CHOOSE sym \in Symbols : sym # symbol
    IN  of(other) \o of(symbol)

\* [p.price for p in self.past_prices[symbol]]
PriceList(pp, symbol) == [k \in 1..Len(pp[symbol]) |-> pp[symbol][k].price]

\* a[-w:] as Python slices it: the last w elements (all of them when w exceeds
\* the length) for w > 0, the whole array for w = 0 (-0 is 0), and a[|w|:] for
\* w < 0
SliceLast(a, w) ==
    LET n == Len(a)
        from == IF w > 0 THEN (IF n - w > 0 THEN n - w ELSE 0)
                ELSE IF -w < n THEN -w ELSE n
    IN  SubSeq(a, from + 1, n)

\* mutant of calculate_average
calculate_average_whole_history(pp, symbol, w) ==
    [sum |-> Sum(PriceList(pp, symbol)), count |-> Len(PriceList(pp, symbol))]

\* calculate_average: the mean of the slice, as (sum, count); count 0 is nan
calculate_average(pp, symbol, w) ==
    LET a == SliceLast(PriceList(pp, symbol), w)
    IN  [sum |-> Sum(a), count |-> Len(a)]

\* price > mean, false against nan
Above(price, mean) == mean.count > 0 /\ price * mean.count > mean.sum

\* mutant of generate_signal: the mean is taken before the tick is stored
generate_signal_mean_before_store(pp, w, tick) ==
    LET stored == update_price(pp, tick)
        before == IF tick.symbol \in DOMAIN pp THEN pp ELSE stored
    IN  [past_prices |-> stored,
         order |-> [timestamp |-> tick.timestamp,
                    symbol |-> tick.symbol,
                    price |-> tick.price,
                    action |-> IF Above(tick.price, calculate_average(before, tick.symbol, w))
                               THEN "ask" ELSE "bid",
                    quantity |-> 1]]

\* mutant of generate_signal: one share per stored tick
generate_signal_quantity_grows(pp, w, tick) ==
    LET stored == update_price(pp, tick)
    IN  [past_prices |-> stored,
         order |-> [timestamp |-> tick.timestamp,
                    symbol |-> tick.symbol,
                    price |-> tick.price,
                    action |-> IF Above(tick.price, calculate_average(stored, tick.symbol, w))
                               THEN "ask" ELSE "bid",
                    quantity |-> Len(stored[tick.symbol])]]

\* generate_signal: the dict after the call and the Order returned
generate_signal(pp, w, tick) ==
    LET stored == update_price(pp, tick)
    IN  [past_prices |-> stored,
         order |-> [timestamp |-> tick.timestamp,
                    symbol |-> tick.symbol,
                    price |-> tick.price,
                    action |-> IF Above(tick.price, calculate_average(stored, tick.symbol, w))
                               THEN "ask" ELSE "bid",
                    quantity |-> 1]]

\* A caller feeds one tick to the strategy
GenerateSignal ==
    /\ Len(calls) < MaxTicks
    /\ \E tick \in Ticks :
          LET r == generate_signal(past_prices, window, tick)
          IN  /\ past_prices' = r.past_prices
              /\ calls' = Append(calls,
                                 [tick |-> tick, order |-> r.order,
                                  mean |-> calculate_average(r.past_prices, tick.symbol,
                                                             window)])
    /\ UNCHANGED <<loaderVars, portfolioVars, brokerVars, runVars, window, batchVars>>

----------------------------------------------------------------------------
(* WindowedMovingAverageStrategy, batch mode: signals(prices) *)

BatchSeries == SeqsUpTo(Prices, MaxBatchLen)

\* mutant of BatchSignal
BatchSignal_current_in_mean(price, k, w, sum, oldest) ==
    IF k < w - 1 THEN 0
    ELSE IF k < w THEN (IF price * w > sum + price THEN 1
                        ELSE IF price * w < sum + price THEN -1 ELSE 0)
    ELSE IF price * w > sum + price - oldest THEN 1
    ELSE IF price * w < sum + price - oldest THEN -1
    ELSE 0

\* The signal of index k (0-based), given the sum of the w prices before it
BatchSignal(price, k, w, sum, oldest) ==
    IF k < w THEN 0
    ELSE IF price * w > sum THEN 1
    ELSE IF price * w < sum THEN -1
    ELSE 0

\* The batch signal of index k (0-based) of the price list p, by the definition
\* of the batch mode: against the sum of p[k-w .. k-1]
BatchSignalOf(p, w, k) ==
    BatchSignal(p[k + 1], k, w, IF k >= w THEN Sum(SubSeq(p, k - w + 1, k)) ELSE 0, 0)

\* signals(prices) is called
BatchBegin ==
    /\ bpc = "idle"
    /\ series' \in BatchSeries
    /\ out' = <<>>
    /\ acc' = 0
    /\ bpc' = "loop"
    /\ UNCHANGED <<loaderVars, portfolioVars, brokerVars, runVars, window, streamVars>>

\* The signal of the next index is computed and the trailing sum moved on
BatchStep ==
    /\ bpc = "loop"
    /\ Len(out) < Len(series)
    /\ LET k == Len(out)
           price == series[k + 1]
           oldest == IF k >= window THEN series[k - window + 1] ELSE 0
       IN  /\ out' = Append(out, BatchSignal(price, k, window, acc, oldest))
           /\ acc' = acc + price - oldest
    /\ UNCHANGED <<loaderVars, portfolioVars, brokerVars, runVars, window, streamVars, bpc, series>>

\* The signal series is returned
BatchReturn ==
    /\ bpc = "loop"
    /\ Len(out) = Len(series)
    /\ bpc' = "done"
    /\ UNCHANGED <<loaderVars, portfolioVars, brokerVars, runVars, window, streamVars, series, out, acc>>

----------------------------------------------------------------------------
(* Portfolio: cash, per-symbol positions with realized PnL, order history *)

Actions == {"bid", "ask"}

\* Order: the orders given to update_position, and those given to calculate_pnl
\* (which is also tried with an action that is neither bid nor ask)
Orders ==
    [timestamp : {1}, symbol : Symbols, price : 1..MaxOrderPrice,
     action : Actions, quantity : 1..MaxOrderQty]
PnlOrders ==
    [timestamp : {1}, symbol : Symbols, price : 1..MaxOrderPrice,
     action : Actions \cup {"hold"}, quantity : 1..MaxOrderQty]

PortfolioCash == {0, TestCash}

\* Portfolio(initial_cash)
NewPortfolio(c) == [cash |-> c, positions |-> EmptyDict, order_history |-> <<>>]

\* The Position created for a symbol on its first order
NewPosition(symbol) == [symbol |-> symbol, quantity |-> 0, pnl |-> 0]

\* What no call has returned yet, and what update_position returns
NoCall == [op |-> "", order |-> <<>>, value |-> 0, raised |-> NoError]

\* mutant of calculate_pnl
calculate_pnl_always_outflow(pf, order) ==
    IF order.action \in Actions
    THEN [portfolio |-> pf, value |-> -(order.price * order.quantity), raised |-> NoError]
    ELSE [portfolio |-> pf, value |-> 0, raised |-> ValueError("")]

\* calculate_pnl: the portfolio after the call, the value returned, what was
\* raised (the error's message is not specified)
calculate_pnl(pf, order) ==
    IF order.action = "bid"
    THEN [portfolio |-> pf, value |-> -(order.price * order.quantity), raised |-> NoError]
    ELSE IF order.action = "ask"
    THEN [portfolio |-> pf, value |-> order.price * order.quantity, raised |-> NoError]
    ELSE [portfolio |-> pf, value |-> 0, raised |-> ValueError("")]

\* The Position of a symbol: the stored one, or a new one
PositionOf(pf, symbol) ==
    IF symbol \in DOMAIN pf.positions THEN pf.positions[symbol] ELSE NewPosition(symbol)

\* mutants of update_position
update_position_signed_quantity(pf, order) ==
    LET pnl == calculate_pnl(pf, order).value
        pos == PositionOf(pf, order.symbol)
        q == IF order.action = "bid" THEN order.quantity ELSE -order.quantity
    IN  [cash |-> pf.cash + pnl,
         positions |-> (order.symbol :> [pos EXCEPT !.quantity = @ + q, !.pnl = @ + pnl])
                       @@ pf.positions,
         order_history |-> Append(pf.order_history, order)]

update_position_cash_spent(pf, order) ==
    LET pnl == calculate_pnl(pf, order).value
        pos == PositionOf(pf, order.symbol)
    IN  [cash |-> pf.cash - order.price * order.quantity,
         positions |-> (order.symbol :> [pos EXCEPT !.quantity = @ + order.quantity,
                                                    !.pnl = @ + pnl])
                       @@ pf.positions,
         order_history |-> Append(pf.order_history, order)]

update_position_history_newest_first(pf, order) ==
    LET pnl == calculate_pnl(pf, order).value
        pos == PositionOf(pf, order.symbol)
    IN  [cash |-> pf.cash + pnl,
         positions |-> (order.symbol :> [pos EXCEPT !.quantity = @ + order.quantity,
                                                    !.pnl = @ + pnl])
                       @@ pf.positions,
         order_history |-> <<order>> \o pf.order_history]

update_position_new_without_pnl(pf, order) ==
    LET pnl == calculate_pnl(pf, order).value
        pos == PositionOf(pf, order.symbol)
    IN  [cash |-> pf.cash + pnl,
         positions |-> (order.symbol :>
                           IF order.symbol \in DOMAIN pf.positions
                           THEN [pos EXCEPT !.quantity = @ + order.quantity, !.pnl = @ + pnl]
                           ELSE [pos EXCEPT !.quantity = @ + order.quantity])
                       @@ pf.positions,
         order_history |-> Append(pf.order_history, order)]

update_position_keeps_one_symbol(pf, order) ==
    LET pnl == calculate_pnl(pf, order).value
        pos == PositionOf(pf, order.symbol)
    IN  [cash |-> pf.cash + pnl,
         positions |-> (order.symbol :> [pos EXCEPT !.quantity = @ + order.quantity,
                                                    !.pnl = @ + pnl]),
         order_history |-> Append(pf.order_history, order)]

\* update_position: the portfolio after the call.  The symbol's Position is
\* looked up or created, its quantity grows by the order's quantity whatever
\* the action, its pnl and the cash take the order's PnL, the order is appended.
update_position(pf, order) ==
    LET pnl == calculate_pnl(pf, order).value
        pos == PositionOf(pf, order.symbol)
    IN  [cash |-> pf.cash + pnl,
         positions |-> (order.symbol :> [pos EXCEPT !.quantity = @ + order.quantity,
                                                    !.pnl = @ + pnl])
                       @@ pf.positions,
         order_history |-> Append(pf.order_history, order)]

\* A caller gives one order to the portfolio
UpdatePosition ==
    /\ Len(pcalls) < MaxUpdates
    /\ \E order \in Orders :
          /\ portfolio' = update_position(portfolio, order)
          /\ pcalls' = Append(pcalls, order)
          /\ returned' = [NoCall EXCEPT !.op = "update_position", !.order = order]
    /\ UNCHANGED <<loaderVars, brokerVars, runVars, window, streamVars, batchVars, initial_cash>>

\* A caller asks the portfolio for the PnL of an order
CalculatePnl ==
    /\ Len(pcalls) <= MaxPnlDepth
    /\ \E order \in PnlOrders :
          LET r == calculate_pnl(portfolio, order)
          IN  /\ portfolio' = r.portfolio
              /\ returned' = [op |-> "calculate_pnl", order |-> order,
                              value |-> r.value, raised |-> r.raised]
    /\ UNCHANGED <<loaderVars, brokerVars, runVars, window, streamVars, batchVars, initial_cash, pcalls>>

----------------------------------------------------------------------------
(* load_prices_from_generator and the tick generator it consumes *)

\* market_data_generator(symbol, ...): a generator that has yielded nothing yet
NewGenerator(symbol) == [symbol |-> symbol, yielded |-> <<>>]

\* The ticks next(gen) may yield: of the generator's symbol, at a timestamp not
\* before that of the tick yielded last, at any positive price
NextTicks(g) ==
    LET from == IF g.yielded = <<>> THEN 1 ELSE Last(g.yielded).timestamp
    IN  [timestamp : from..MaxGenTime, symbol : {g.symbol}, price : 1..MaxGenPrice]

\* mutant of Series
Series_default_index(data, idx, name) ==
    [name |-> name,
     rows |-> [k \in 1..Len(data) |-> [index |-> k - 1, value |-> data[k]]]]

\* pd.Series(data=prices, index=timestamps, name=symbol): row k pairs the k-th
\* label with the k-th value
Series(data, idx, name) ==
    [name |-> name,
     rows |-> [k \in 1..Len(data) |-> [index |-> idx[k], value |-> data[k]]]]

NoSeries == [name |-> "", rows |-> <<>>]

\* load_prices_from_generator is called: the generator is created, the lists are empty
LoadBegin ==
    /\ lpc = "idle"
    /\ num_ticks' \in 0..MaxNumTicks
    /\ \E symbol \in Symbols : gen' = NewGenerator(symbol)
    /\ timestamps' = <<>>
    /\ tick_prices' = <<>>
    /\ lpc' = "loop"
    /\ UNCHANGED <<loaded, portfolioVars, brokerVars, runVars, window, streamVars, batchVars>>

\* One iteration of  for _ in range(num_ticks): tick = next(gen) and two appends
LoadStep ==
    /\ lpc = "loop"
    /\ Len(tick_prices) < num_ticks
    /\ \E tick \in NextTicks(gen) :
          /\ gen' = [gen EXCEPT !.yielded = Append(@, tick)]
          /\ timestamps' = Append(timestamps, tick.timestamp)
          /\ tick_prices' = Append(tick_prices, tick.price)
    /\ UNCHANGED <<lpc, num_ticks, loaded, portfolioVars, brokerVars, runVars, window,
                   streamVars, batchVars>>

\* The loop is over: the Series is built and returned
LoadReturn ==
    /\ lpc = "loop"
    /\ Len(tick_prices) = num_ticks
    /\ loaded' = Series(tick_prices, timestamps, gen.symbol)
    /\ lpc' = "done"
    /\ UNCHANGED <<num_ticks, gen, timestamps, tick_prices, portfolioVars, brokerVars, runVars,
                   window, streamVars, batchVars>>

----------------------------------------------------------------------------
(* The parts a specification does not exercise stay as constructed *)

RunIdle ==
    /\ pc = "idle" /\ prices = <<>> /\ index = <<>> /\ signals = <<>> /\ i = 0
    /\ cash_history = <<>> /\ position_history = <<>> /\ equity_history = <<>>
    /\ results = <<>> /\ results_index = <<>> /\ start = Broker(0, 0)
    /\ runs = 0 /\ orders_before = 0

StreamIdle == past_prices = EmptyDict /\ calls = <<>>

BatchIdle == bpc = "idle" /\ series = <<>> /\ out = <<>> /\ acc = 0

LoaderIdle ==
    /\ lpc = "idle" /\ num_ticks = 0 /\ gen = NewGenerator("")
    /\ timestamps = <<>> /\ tick_prices = <<>> /\ loaded = NoSeries

\* Portfolio.__init__
PortfolioInit ==
    /\ initial_cash \in PortfolioCash
    /\ portfolio = NewPortfolio(initial_cash)
    /\ pcalls = <<>>
    /\ returned = NoCall

PortfolioIdle == PortfolioInit /\ initial_cash = TestCash

\* Broker.__init__
BrokerInit == cash \in InitCash /\ position = 0 /\ log = <<>>

InitBroker == BrokerInit /\ RunIdle /\ window = 1 /\ StreamIdle /\ BatchIdle /\ PortfolioIdle /\ LoaderIdle

NextBroker == MarketOrder

SpecBroker == InitBroker /\ [][NextBroker]_vars

\* Backtester.__init__ with a broker that may already have traded
InitRun ==
    /\ cash \in InitCash /\ position \in StartPositions /\ log = <<>>
    /\ RunIdle /\ window = 1 /\ StreamIdle /\ BatchIdle /\ PortfolioIdle /\ LoaderIdle

NextRun == RunBegin \/ RunStep \/ RunReturn

SpecRun == InitRun /\ [][NextRun]_vars

\* WindowedMovingAverageStrategy.__init__: any window, nothing stored
InitStream ==
    /\ BrokerInit /\ cash = DefaultCash /\ RunIdle
    /\ window \in Windows /\ StreamIdle /\ BatchIdle /\ PortfolioIdle /\ LoaderIdle

NextStream == GenerateSignal

SpecStream == InitStream /\ [][NextStream]_vars

\* A strategy with a positive window, about to compute batch signals
InitBatch ==
    /\ BrokerInit /\ cash = DefaultCash /\ RunIdle
    /\ window \in 1..MaxWindow /\ StreamIdle /\ BatchIdle /\ PortfolioIdle /\ LoaderIdle

NextBatch == BatchBegin \/ BatchStep \/ BatchReturn

SpecBatch == InitBatch /\ [][NextBatch]_vars

\* A portfolio as constructed; the broker, the backtester and the strategy idle
InitPortfolio ==
    /\ BrokerInit /\ cash = DefaultCash /\ RunIdle
    /\ window = 1 /\ StreamIdle /\ BatchIdle /\ PortfolioInit /\ LoaderIdle

NextPortfolio == UpdatePosition \/ CalculatePnl

SpecPortfolio == InitPortfolio /\ [][NextPortfolio]_vars

\* No price series loaded yet; everything else idle
InitLoader ==
    /\ BrokerInit /\ cash = DefaultCash /\ RunIdle
    /\ window = 1 /\ StreamIdle /\ BatchIdle /\ PortfolioIdle /\ LoaderIdle

NextLoader == LoadBegin \/ LoadStep \/ LoadReturn

SpecLoader == InitLoader /\ [][NextLoader]_vars

----------------------------------------------------------------------------
(* Claims about the Broker, checked under SpecBroker *)

Calls == 1..Len(log)
ValidSide(k) == log[k].side \in {"buy", "sell"}

\* C1: a 'buy' of qty at price leaves position + qty and cash - qty*price, a
\* 'sell' leaves position - qty and cash + qty*price, from every broker state
\* and for every qty and price (no fee, slippage or lot-size adjustment).
C1_BuySellArithmetic ==
    \A k \in Calls :
        /\ log[k].side = "buy" =>
              /\ PositionAfter(k) = log[k].position + log[k].qty
              /\ CashAfter(k) = log[k].cash - log[k].qty * log[k].price
        /\ log[k].side = "sell" =>
              /\ PositionAfter(k) = log[k].position - log[k].qty
              /\ CashAfter(k) = log[k].cash + log[k].qty * log[k].price

\* a buy and a sell of two shares at price 2 have both been applied, one of
\* them to a broker that already held a position
C1_Witness ==
    /\ \E k \in Calls : log[k].side = "buy" /\ log[k].qty = 2 /\ log[k].price = 2
    /\ \E k \in Calls : log[k].side = "sell" /\ log[k].qty = 2 /\ log[k].price = 2
    /\ \E k \in Calls : ValidSide(k) /\ log[k].position # 0 /\ log[k].qty > 0

\* C5: a market_order whose side is neither 'buy' nor 'sell' raises a
\* ValueError whose message is 'Unknown side: ' followed by the side given.
C5_UnknownSideRaises ==
    \A k \in Calls :
        ~ValidSide(k) =>
            /\ log[k].raised.type = "ValueError"
            /\ log[k].raised.msg = "Unknown side: " \o log[k].side

\* an order with side 'BUY' has been placed and has raised
C5_Witness ==
    \E k \in Calls : log[k].side = "BUY" /\ log[k].raised.msg = "Unknown side: BUY"

\* C6: a buy of q at p1 followed by a sell of q at p2 restores the position
\* held before the buy and changes cash by exactly q*(p2-p1); a sell of q at p1
\* followed by a buy of q at p2 restores it and changes cash by q*(p1-p2).
C6_RoundTrip ==
    \A k \in Calls :
        (k < Len(log) /\ log[k].qty = log[k + 1].qty) =>
            LET q == log[k].qty
                p1 == log[k].price
                p2 == log[k + 1].price
            IN  /\ (log[k].side = "buy" /\ log[k + 1].side = "sell") =>
                      /\ PositionAfter(k + 1) = log[k].position
                      /\ CashAfter(k + 1) - log[k].cash = q * (p2 - p1)
                /\ (log[k].side = "sell" /\ log[k + 1].side = "buy") =>
                      /\ PositionAfter(k + 1) = log[k].position
                      /\ CashAfter(k + 1) - log[k].cash = q * (p1 - p2)

\* a losing buy-then-sell round trip of two shares, begun while short
C6_Witness ==
    \E k \in Calls :
        /\ k < Len(log)
        /\ log[k].side = "buy" /\ log[k + 1].side = "sell"
        /\ log[k].qty = 2 /\ log[k + 1].qty = 2
        /\ log[k].price = 2 /\ log[k + 1].price = 1
        /\ log[k].position < 0

\* C7: every market_order call, successful or failing, leaves cash and position
\* changed together: either the order's whole change is in both (position by
\* d*qty and cash by -d*qty*price, for one direction d) or in neither.
C7_Atomic ==
    \A k \in Calls :
        LET dPos == PositionAfter(k) - log[k].position
            dCash == CashAfter(k) - log[k].cash
        IN  \/ dPos = 0 /\ dCash = 0
            \/ \E d \in {1, -1} :
                  dPos = d * log[k].qty /\ dCash = -d * log[k].qty * log[k].price

\* a failing call came between two successful ones that moved both fields
C7_Witness ==
    /\ Len(log) = 3
    /\ ValidSide(1) /\ ~ValidSide(2) /\ ValidSide(3)
    /\ log[1].qty > 0 /\ log[2].qty > 0 /\ log[3].qty > 0
    /\ log[2].position # 0

\* C8: no margin or short-sale restriction: an order with side 'buy' or 'sell'
\* never raises and is filled in full (the whole qty, the whole qty*price),
\* also from a state with negative cash or position and into one.
C8_NoRestriction ==
    \A k \in Calls :
        ValidSide(k) =>
            LET d == IF log[k].side = "buy" THEN 1 ELSE -1
            IN  /\ log[k].raised = NoError
                /\ log[k].position + d * log[k].qty = PositionAfter(k)
                /\ log[k].cash = CashAfter(k) + d * log[k].qty * log[k].price

\* orders were accepted from a state with negative cash and from one with a
\* negative position, and have left cash and position both negative
C8_Witness ==
    /\ cash < 0 /\ position < 0
    /\ \A k \in Calls : ValidSide(k) /\ log[k].qty > 0
    /\ \E k \in Calls : log[k].cash < 0
    /\ \E k \in Calls : log[k].position < 0 \/ PositionAfter(k) < 0

----------------------------------------------------------------------------
(* Claims about Backtester.run, checked under SpecRun *)

Steps == 1..Len(cash_history)

\* C2: for every step i >= 1 the trade of step i is decided by the signal of
\* index i-1 and filled at price[i]: position[i] - position[i-1] = signals[i-1]
\* and cash[i] - cash[i-1] = -signals[i-1] * price[i] (one share bought for +1,
\* one sold for -1, nothing for 0).  Step i is element i+1 here.
C2_SignalLag ==
    \A j \in Steps :
        j >= 2 =>
            /\ position_history[j] - position_history[j - 1] = signals[j - 1]
            /\ cash_history[j] - cash_history[j - 1] = -signals[j - 1] * prices[j]

\* a finished run over three rising-then-falling prices whose signals differ
\* from one index to the next, so that acting on the wrong index would show
C2_Witness ==
    /\ pc = "done"
    /\ prices = <<1, 2, 1>>
    /\ signals = <<1, -1, 0>>
    /\ position_history = <<start.position, start.position + 1, start.position>>

\* C3: run never trades on step 0: whatever the signals are, the snapshot of
\* step 0 holds the broker's cash and position as they were when run was called.
C3_NoTradeOnFirstStep ==
    /\ Len(cash_history) >= 1 =>
          /\ cash_history[1] = start.cash
          /\ position_history[1] = start.position
    /\ (pc = "done" /\ Len(results) >= 1) =>
          /\ results[1].cash = start.cash
          /\ results[1].position = start.position

\* a run has returned whose signal at index 0 asked for a trade, on a broker
\* that already held a position
C3_Witness ==
    /\ pc = "done"
    /\ Len(results) >= 2
    /\ signals[1] = -1
    /\ start.position # 0
    /\ results[1].position = start.position

\* C4: every row of the trace has equity = cash + position * price, with the
\* cash and position the broker holds after that step's trade and that step's
\* own price.
C4_EquityIdentity ==
    /\ \A j \in Steps :
          equity_history[j] = cash_history[j] + position_history[j] * prices[j]
    /\ (pc = "loop" /\ Len(cash_history) >= 1) =>
          /\ Last(cash_history) = cash
          /\ Last(position_history) = position
    /\ pc = "done" =>
          \A j \in 1..Len(results) :
              /\ results[j].equity = results[j].cash + results[j].position * results[j].price
              /\ results[j].price = prices[j]

\* a returned trace with a row recorded right after a trade, at a price other
\* than 1 and with a position other than 0 and 1
C4_Witness ==
    /\ pc = "done"
    /\ \E j \in 2..Len(results) :
          /\ results[j].position # results[j - 1].position
          /\ results[j].price = 2
          /\ results[j].position = -2

----------------------------------------------------------------------------
(* Claim about the batch mode, checked under SpecBatch *)

\* C9: signals(prices) returns a series of the length of prices in which, for
\* every index i, the signal is 0 if i < window and otherwise +1, -1 or 0 as
\* price[i] is above, below or equal to the mean of price[i-window .. i-1] (the
\* current price excluded); every value is in {-1, 0, 1}, and all are 0 when
\* len(prices) <= window.  Index i is element i+1 here.
C9_BatchSignals ==
    /\ bpc = "done" => Len(out) = Len(series)
    /\ \A j \in 1..Len(out) :
          LET idx == j - 1
              before == SubSeq(series, idx - window + 1, idx)
          IN  /\ out[j] \in {-1, 0, 1}
              /\ idx < window => out[j] = 0
              /\ idx >= window =>
                    /\ Len(before) = window
                    /\ out[j] = 1 <=> series[j] * window > Sum(before)
                    /\ out[j] = -1 <=> series[j] * window < Sum(before)
                    /\ out[j] = 0 <=> series[j] * window = Sum(before)
    /\ Len(series) <= window => \A j \in 1..Len(out) : out[j] = 0

\* the signals of 1, 1, 2, 1 with window 2 have been returned: a buy against
\* mean(1,1) and a sell against mean(1,2)
C9_Witness ==
    /\ bpc = "done"
    /\ window = 2
    /\ series = <<1, 1, 2, 1>>
    /\ out = <<0, 0, 1, -1>>

----------------------------------------------------------------------------
(* Claim about the streaming mode, checked under SpecStream *)

Min(a, b) == IF a < b THEN a ELSE b

\* C10: for a strategy with a positive window, generate_signal(tick) returns
\* action 'ask' if tick.price is strictly greater than the mean of the last
\* min(window, n) prices stored for tick.symbol, n being the number of ticks
\* stored for it once the call has stored the tick, and 'bid' otherwise (also
\* on equality); with fewer than window prices stored the mean is over all.
\* Stated of the latest call, whose stored prices are the current ones.
C10_StreamingSignal ==
    (window >= 1 /\ calls # <<>>) =>
        LET call == Last(calls)
            stored == past_prices[call.tick.symbol]
            n == Len(stored)
            m == Min(window, n)
            total == Sum([k \in 1..m |-> stored[n - m + k].price])
        IN  /\ m >= 1
            /\ call.order.action \in {"ask", "bid"}
            /\ call.order.action = "ask" <=> call.tick.price * m > total
            /\ n < window => total = Sum(PriceList(past_prices, call.tick.symbol))

\* with window 2, three ticks of one symbol priced 1, 2, 2 have drawn bid (one
\* price stored), ask (2 above mean(1,2)) and bid (2 equal to mean(2,2), though
\* above the mean of all three)
C10_Witness ==
    /\ window = 2
    /\ Len(calls) = 3
    /\ \A k \in 1..3 : calls[k].tick.symbol = "AAPL"
    /\ PriceList(past_prices, "AAPL") = <<1, 2, 2>>
    /\ calls[1].order.action = "bid"
    /\ calls[2].order.action = "ask"
    /\ calls[3].order.action = "bid"

----------------------------------------------------------------------------
(* Claims about the two modes and the stored history, checked under SpecStream *)

\* The calls made so far fed pairwise distinct ticks of one symbol
DistinctTicksOfOneSymbol ==
    /\ calls # <<>>
    /\ \A k \in 1..Len(calls) : calls[k].tick.symbol = calls[1].tick.symbol
    /\ \A k, l \in 1..Len(calls) : k # l => calls[k].tick # calls[l].tick

\* C11: the batch and the streaming mode agree: fed the same pairwise distinct
\* ticks of one symbol (window positive), at every index i >= window where the
\* batch signal is not 0 the streaming order trades the same way: 'bid' (buy)
\* where the batch signal is +1 and 'ask' (sell) where it is -1.
C11_ModesAgree ==
    (window >= 1 /\ DistinctTicksOfOneSymbol) =>
        LET p == [k \in 1..Len(calls) |-> calls[k].tick.price]
        IN  \A k \in 1..Len(calls) :
                (k - 1 >= window) =>
                    /\ BatchSignalOf(p, window, k - 1) = 1 => calls[k].order.action = "bid"
                    /\ BatchSignalOf(p, window, k - 1) = -1 => calls[k].order.action = "ask"

\* C12: a tick equal in timestamp, symbol and price to the one stored last for
\* its symbol leaves that symbol's stored history as it was; any other tick is
\* appended at its end (to an empty history when the symbol is new).
C12_Deduplication ==
    [][calls' # calls =>
          LET tick == Last(calls').tick
              before == IF tick.symbol \in DOMAIN past_prices
                        THEN past_prices[tick.symbol] ELSE <<>>
          IN  /\ tick.symbol \in DOMAIN past_prices'
              /\ IF before # <<>> /\ Last(before) = tick
                 THEN past_prices'[tick.symbol] = before
                 ELSE past_prices'[tick.symbol] = Append(before, tick)]_vars

\* three calls fed a tick, the same tick again, then one differing only in its
\* timestamp: two ticks are stored
C12_Witness ==
    /\ Len(calls) = 3
    /\ calls[2].tick = calls[1].tick
    /\ calls[3].tick = [calls[1].tick EXCEPT !.timestamp = 2]
    /\ calls[1].tick.timestamp = 1
    /\ past_prices[calls[1].tick.symbol] = <<calls[1].tick, calls[3].tick>>

----------------------------------------------------------------------------
(* Claims about the Portfolio, checked under SpecPortfolio *)

\* The orders among the first k given to update_position that name symbol s
RECURSIVE QuantityGiven(_, _)
QuantityGiven(s, k) ==
    IF k = 0 THEN 0
    ELSE QuantityGiven(s, k - 1) + (IF pcalls[k].symbol = s THEN pcalls[k].quantity ELSE 0)

\* The PnL of an order: -price*quantity for a bid, +price*quantity for an ask
SignedValue(order) ==
    IF order.action = "bid" THEN -(order.price * order.quantity)
    ELSE order.price * order.quantity

RECURSIVE PnlGiven(_, _)
PnlGiven(s, k) ==
    IF k = 0 THEN 0
    ELSE PnlGiven(s, k - 1) + (IF pcalls[k].symbol = s THEN SignedValue(pcalls[k]) ELSE 0)

Traded == {pcalls[k].symbol : k \in 1..Len(pcalls)}

\* The sum of position.pnl over the positions of the symbols in S
RECURSIVE TotalPnl(_, _)
TotalPnl(ps, S) ==
    IF S = {} THEN 0
    ELSE LET s == CHOOSE x \in S : TRUE
         IN  ps[s].pnl + TotalPnl(ps, S \ {s})

\* C13: calculate_pnl(order) returns -price*quantity for a 'bid' and
\* +price*quantity for an 'ask', raises a ValueError for any other action, and
\* leaves cash, positions and order_history as they were.
C13_CalculatePnl ==
    [][pcalls' = pcalls =>
          LET o == returned'.order
          IN  /\ returned'.op = "calculate_pnl"
              /\ o.action = "bid" =>
                    returned'.value = -(o.price * o.quantity) /\ returned'.raised = NoError
              /\ o.action = "ask" =>
                    returned'.value = o.price * o.quantity /\ returned'.raised = NoError
              /\ o.action \notin {"bid", "ask"} => returned'.raised.type = "ValueError"
              /\ portfolio' = portfolio]_vars

\* calculate_pnl has raised for a 'hold' order on a portfolio holding a position
C13_Witness ==
    /\ returned.op = "calculate_pnl"
    /\ returned.order.action = "hold"
    /\ returned.raised.type = "ValueError"
    /\ Len(pcalls) = 1
    /\ portfolio.cash # initial_cash

C15_AskReducesQuantity ==
    (/\ Len(pcalls) = 2
     /\ pcalls[1].action = "bid" /\ pcalls[2].action = "ask"
     /\ pcalls[1].symbol = pcalls[2].symbol) =>
        portfolio.positions[pcalls[1].symbol].quantity
            = pcalls[1].quantity - pcalls[2].quantity

\* C16: cash and PnL move together: every update_position adds the order's PnL
\* (-price*quantity for a bid, +price*quantity for an ask) to the symbol's
\* position.pnl and to cash, so cash - initial_cash is the sum of position.pnl
\* over all positions.
C16_CashFollowsPnl ==
    /\ \A s \in DOMAIN portfolio.positions :
          portfolio.positions[s].pnl = PnlGiven(s, Len(pcalls))
    /\ portfolio.cash - initial_cash
          = Sum([k \in 1..Len(pcalls) |-> SignedValue(pcalls[k])])
    /\ portfolio.cash - initial_cash
          = TotalPnl(portfolio.positions, DOMAIN portfolio.positions)

\* bids and an ask on two symbols have left a net PnL that is not 0
C16_Witness ==
    /\ Len(pcalls) = 3
    /\ DOMAIN portfolio.positions = Symbols
    /\ \E k \in 1..3 : pcalls[k].action = "ask"
    /\ \E k \in 1..3 : pcalls[k].action = "bid"
    /\ portfolio.positions["AAPL"].pnl > 0
    /\ portfolio.positions["MSFT"].pnl < 0
    /\ portfolio.cash < initial_cash

\* C17: order_history is append-only and in call order: after k calls of
\* update_position it has length k and its j-th entry is the order of the j-th
\* call; no step removes or reorders an earlier entry.
C17_OrderHistory ==
    /\ Len(portfolio.order_history) = Len(pcalls)
    /\ \A j \in 1..Len(pcalls) : portfolio.order_history[j] = pcalls[j]

\* three different orders are in the history in the order given, the first of
\* them repeated last
C17_Witness ==
    /\ Len(portfolio.order_history) = 3
    /\ portfolio.order_history[1] # portfolio.order_history[2]
    /\ portfolio.order_history[3] = portfolio.order_history[1]
    /\ portfolio.order_history[1].action = "ask"

\* C18: on a fresh portfolio, update_position for a bid of q at p creates the
\* symbol's position with quantity q and pnl -p*q, leaves cash at
\* initial_cash - p*q and order_history with one entry.
C18_FirstBid ==
    (Len(pcalls) = 1 /\ pcalls[1].action = "bid") =>
        LET o == pcalls[1]
        IN  /\ DOMAIN portfolio.positions = {o.symbol}
            /\ portfolio.positions[o.symbol].symbol = o.symbol
            /\ portfolio.positions[o.symbol].quantity = o.quantity
            /\ portfolio.positions[o.symbol].pnl = -(o.price * o.quantity)
            /\ portfolio.cash = initial_cash - o.price * o.quantity
            /\ Len(portfolio.order_history) = 1

\* a first bid of 2 at price 2 has been applied to a portfolio built with no cash
C18_Witness ==
    /\ Len(pcalls) = 1
    /\ pcalls[1].action = "bid" /\ pcalls[1].quantity = 2 /\ pcalls[1].price = 2
    /\ initial_cash = 0
    /\ portfolio.cash = -4
    /\ returned.op = "update_position"

\* C19: positions are per symbol and independent: a step changes at most the
\* Position of the symbol of the order given to update_position (creating it if
\* absent) and no Position is ever removed.
C19_PositionsIndependent ==
    [][/\ DOMAIN portfolio.positions \subseteq DOMAIN portfolio'.positions
       /\ \A t \in DOMAIN portfolio.positions :
             (pcalls' = pcalls \/ t # Last(pcalls').symbol) =>
                 portfolio'.positions[t] = portfolio.positions[t]
       /\ pcalls' # pcalls =>
             DOMAIN portfolio'.positions
                 = DOMAIN portfolio.positions \cup {Last(pcalls').symbol}]_vars

\* orders on AAPL, then MSFT, then AAPL again: both positions are held and
\* MSFT's is that of its one order
C19_Witness ==
    /\ Len(pcalls) = 3
    /\ pcalls[1].symbol = "AAPL" /\ pcalls[2].symbol = "MSFT" /\ pcalls[3].symbol = "AAPL"
    /\ DOMAIN portfolio.positions = {"AAPL", "MSFT"}
    /\ portfolio.positions["MSFT"].quantity = pcalls[2].quantity
    /\ portfolio.positions["AAPL"].quantity = pcalls[1].quantity + pcalls[3].quantity

----------------------------------------------------------------------------
(* Claim about the returned trace, checked under SpecRun *)

\* C20: the trace returned by run has exactly one row per input price, in input
\* order and under the input's index: row i carries price[i] with the cash,
\* position and equity recorded after step i, one snapshot per step taken.
C20_TraceAligned ==
    /\ pc # "idle" =>
          /\ Len(cash_history) = i
          /\ Len(position_history) = i
          /\ Len(equity_history) = i
    /\ pc = "done" =>
          /\ Len(results) = Len(prices)
          /\ results_index = index
          /\ \A j \in 1..Len(prices) :
                /\ results[j].price = prices[j]
                /\ results[j].cash = cash_history[j]
                /\ results[j].position = position_history[j]
                /\ results[j].equity = equity_history[j]
          /\ Len(prices) >= 1 =>
                /\ results[Len(prices)].cash = cash
                /\ results[Len(prices)].position = position

\* a trace of three rows has been returned for prices 2, 1, 2 labelled 10, 11,
\* 12, with a trade on each of the last two steps
C20_Witness ==
    /\ pc = "done"
    /\ prices = <<2, 1, 2>>
    /\ index = <<10, 11, 12>>
    /\ results_index = <<10, 11, 12>>
    /\ Len(results) = 3
    /\ Len(log) = 2
    /\ results[3].position # results[2].position

----------------------------------------------------------------------------
(* Claims about the window and the mean, checked under SpecStream *)

\* C21: a window <= 0 is rejected as a configuration error: no generate_signal
\* call on a strategy constructed with window <= 0 returns an Order.
C21_WindowRejected == window <= 0 => calls = <<>>

\* C22: for every configured window and every sequence of generate_signal
\* calls, the prices averaged by calculate_average are at least one, so that
\* every call's mean is defined.
C22_MeanDefined == \A k \in 1..Len(calls) : calls[k].mean.count > 0

\* C28: the tick is stored before the mean is taken, so the history averaged
\* ends with the tick's own price; with window 1 the mean is the tick's price
\* and every call emits 'bid'.
C28_WindowOneBids ==
    /\ calls # <<>> =>
          LET call == Last(calls)
          IN  /\ Last(past_prices[call.tick.symbol]) = call.tick
              /\ call.mean = calculate_average(past_prices, call.tick.symbol, window)
    /\ window = 1 =>
          \A k \in 1..Len(calls) :
              /\ calls[k].order.action = "bid"
              /\ calls[k].mean = [sum |-> calls[k].tick.price, count |-> 1]

\* with window 1, three ticks of one symbol priced 1, 2, 1 have been fed, each
\* drawing 'bid'
C28_Witness ==
    /\ window = 1
    /\ Len(calls) = 3
    /\ \A k \in 1..3 : calls[k].tick.symbol = "AAPL" /\ calls[k].order.action = "bid"
    /\ PriceList(past_prices, "AAPL") = <<1, 2, 1>>

----------------------------------------------------------------------------
(* Claims about the symbols and the orders returned, checked under SpecStream *)

\* The calls made so far for one symbol, in order
CallsFor(sym) == SelectSeq(calls, LAMBDA c : c.tick.symbol = sym)

\* A fresh strategy of window w fed ticks alone: what it stores, the actions it emits
RECURSIVE Alone(_, _, _, _)
Alone(pp, w, ticks, actions) ==
    IF ticks = <<>>
    THEN [past_prices |-> pp, actions |-> actions]
    ELSE LET r == generate_signal(pp, w, Head(ticks))
         IN  Alone(r.past_prices, w, Tail(ticks), Append(actions, r.order.action))

\* C29: the histories are isolated per symbol: whatever ticks of other symbols
\* came in between, the history stored for a symbol and the actions emitted for
\* it are those of a strategy fed that symbol's ticks alone.
C29_SymbolsIsolated ==
    \A sym \in Symbols :
        LET mine == CallsFor(sym)
            alone == Alone(EmptyDict, window,
                           [k \in 1..Len(mine) |-> mine[k].tick], <<>>)
        IN  /\ sym \in DOMAIN past_prices <=> mine # <<>>
            /\ mine # <<>> => past_prices[sym] = alone.past_prices[sym]
            /\ [k \in 1..Len(mine) |-> mine[k].order.action] = alone.actions

\* with window 2, a tick of MSFT priced 1 came between ticks of AAPL priced 2
\* and 2: the second AAPL tick drew 'bid' (2 equals mean(2, 2)) where a mean
\* over the MSFT price would have drawn 'ask'
C29_Witness ==
    /\ window = 2
    /\ Len(calls) = 3
    /\ calls[1].tick.symbol = "AAPL" /\ calls[1].tick.price = 2
    /\ calls[2].tick.symbol = "MSFT" /\ calls[2].tick.price = 1
    /\ calls[3].tick.symbol = "AAPL" /\ calls[3].tick.price = 2
    /\ calls[3].tick # calls[1].tick
    /\ calls[3].order.action = "bid"
    /\ Len(past_prices["AAPL"]) = 2 /\ Len(past_prices["MSFT"]) = 1

\* C30: every generate_signal(tick) call returns one Order with the tick's own
\* timestamp, symbol and price, quantity 1 and action 'bid' or 'ask', also when
\* the tick is a duplicate that was not appended to the history.
C30_OneOrderPerCall ==
    \A k \in 1..Len(calls) :
        /\ calls[k].order.timestamp = calls[k].tick.timestamp
        /\ calls[k].order.symbol = calls[k].tick.symbol
        /\ calls[k].order.price = calls[k].tick.price
        /\ calls[k].order.quantity = 1
        /\ calls[k].order.action \in {"bid", "ask"}

\* the same tick was fed three times after one of a lower price: one copy of
\* it is stored and each of the three calls has returned its order
C30_Witness ==
    /\ window = 2
    /\ Len(calls) = 3
    /\ calls[2].tick = calls[3].tick
    /\ calls[1].tick.symbol = calls[2].tick.symbol
    /\ calls[1].tick.price = 1 /\ calls[2].tick.price = 2
    /\ Len(past_prices[calls[2].tick.symbol]) = 2
    /\ calls[2].order = calls[3].order
    /\ calls[2].order.action = "ask"

----------------------------------------------------------------------------
(* Claim about failed orders, checked under SpecBroker *)

\* The shares bought less those sold by the successful calls among the first k
RECURSIVE NetQuantity(_)
NetQuantity(k) ==
    IF k = 0 THEN 0
    ELSE NetQuantity(k - 1) + (IF log[k].side = "buy" THEN log[k].qty
                               ELSE IF log[k].side = "sell" THEN -log[k].qty ELSE 0)

\* The cash paid less that received by the successful calls among the first k
RECURSIVE NetCost(_)
NetCost(k) ==
    IF k = 0 THEN 0
    ELSE NetCost(k - 1) + (IF log[k].side = "buy" THEN log[k].qty * log[k].price
                           ELSE IF log[k].side = "sell" THEN -log[k].qty * log[k].price
                           ELSE 0)

\* C24: a market_order whose side is neither 'buy' nor 'sell' raises and
\* leaves cash and position as they were before the call; the broker's fields
\* are at every moment those the valid orders alone produce from the fields it
\* was constructed with, as if the invalid calls had never been made.
C24_FailedOrderChangesNothing ==
    /\ \A k \in Calls :
          ~ValidSide(k) =>
              /\ log[k].raised # NoError
              /\ CashAfter(k) = log[k].cash
              /\ PositionAfter(k) = log[k].position
    /\ log # <<>> =>
          /\ position = log[1].position + NetQuantity(Len(log))
          /\ cash = log[1].cash - NetCost(Len(log))

\* a buy of 2 at 2, a failed order of 2 at 2 and a sell of 1 at 1 have left the
\* broker one share long and 3 poorer
C24_Witness ==
    /\ Len(log) = 3
    /\ log[1].side = "buy" /\ log[1].qty = 2 /\ log[1].price = 2
    /\ log[2].side = "BUY" /\ log[2].qty = 2 /\ log[2].price = 2
    /\ log[3].side = "sell" /\ log[3].qty = 1 /\ log[3].price = 1
    /\ log[2].raised # NoError
    /\ position = 1 /\ cash = log[1].cash - 3

----------------------------------------------------------------------------
(* Claims about the orders of a run, checked under SpecRun *)

\* The orders sent to the broker by the latest run
Sent == Len(log) - orders_before

\* The steps (1-based) among the first k of the latest run that sent an order:
\* step s > 1 acts on signals[s - 1]
Trading(k) == {s \in 2..k : signals[s - 1] # 0}

\* C25: an order leaves cash + position * price unchanged at the price it is
\* filled at, hence for every step i >= 1 of a run, equity[i] - equity[i-1] =
\* position[i-1] * (price[i] - price[i-1]), whatever the signals are.  Step i
\* is element i+1 here.
C25_ValueNeutral ==
    /\ \A k \in Calls :
          /\ log[k].raised = NoError
          /\ CashAfter(k) + PositionAfter(k) * log[k].price
                = log[k].cash + log[k].position * log[k].price
    /\ \A j \in Steps :
          j >= 2 =>
              equity_history[j] - equity_history[j - 1]
                 = position_history[j - 1] * (prices[j] - prices[j - 1])

\* a run over prices 1, 2, 1 has bought at 2 and sold at 1 on a broker that
\* was one share short: the equity fell by 1 and then by 0
C25_Witness ==
    /\ pc = "done"
    /\ runs = 1
    /\ prices = <<1, 2, 1>>
    /\ signals = <<1, -1, 1>>
    /\ start.position = -1
    /\ equity_history[2] = equity_history[1] - 1
    /\ equity_history[3] = equity_history[2]

\* C26: in a run over n prices the signal at the last index is never executed
\* and at most n-1 orders are sent: after k steps the orders sent are one per
\* step i in 1..k-1 whose signal[i-1] is +1 or -1, each filled at that step's
\* price, and none for n = 0 or n = 1.
C26_LastSignalUnused ==
    pc # "idle" =>
        /\ Sent = Cardinality(Trading(i))
        /\ Len(prices) <= 1 => Sent = 0
        /\ Len(prices) >= 1 => Sent <= Len(prices) - 1
        /\ \A s \in Trading(i) :
              LET order == log[orders_before + Cardinality(Trading(s))]
              IN  /\ order.price = prices[s]
                  /\ order.side = SignalSide(signals[s - 1])
                  /\ order.qty = 1

\* a run over three prices whose signals all ask for a trade has returned
\* having sent two orders, and a run over one price with signal +1 sent none
C26_Witness ==
    /\ pc = "done"
    /\ runs = 1
    /\ \/ /\ prices = <<1, 2, 2>> /\ signals = <<1, 1, -1>> /\ Sent = 2
          /\ position = start.position + 2
       \/ /\ prices = <<2>> /\ signals = <<1>> /\ Sent = 0
          /\ position = start.position

\* C27: run does not reset the broker: the first snapshot holds the cash and
\* position the broker had when run was called, after run returns the broker
\* holds those of the last row of the trace, and a second run on the same
\* Backtester starts from the last row of the first run's trace.
C27_BrokerNotReset ==
    /\ Len(cash_history) >= 1 =>
          /\ cash_history[1] = start.cash
          /\ position_history[1] = start.position
    /\ (pc = "done" /\ results # <<>>) =>
          /\ cash = Last(results).cash
          /\ position = Last(results).position
    /\ (pc = "loop" /\ i = 0) =>
          /\ cash = start.cash
          /\ position = start.position
    /\ (pc = "loop" /\ runs >= 2 /\ results # <<>>) =>
          /\ start.cash = Last(results).cash
          /\ start.position = Last(results).position

\* a second run has returned, having started from a cash and a position other
\* than those the first run started from
C27_Witness ==
    /\ pc = "done"
    /\ runs = 2
    /\ Len(results) = 3
    /\ orders_before = 2 /\ Len(log) = 4
    /\ results[1].cash = start.cash /\ results[1].position = start.position
    /\ start.cash # log[1].cash
    /\ start.position # log[1].position

----------------------------------------------------------------------------
(* Claim about load_prices_from_generator, checked under SpecLoader *)

\* C23: load_prices_from_generator(num_ticks = k) advances the generator
\* exactly k times and returns k prices in generation order: the i-th row holds
\* the i-th generated tick's price under that tick's timestamp, none skipped,
\* duplicated or reordered.
C23_LoadsKTicks ==
    /\ lpc # "idle" =>
          /\ Len(gen.yielded) = Len(tick_prices)
          /\ Len(gen.yielded) = Len(timestamps)
          /\ Len(gen.yielded) <= num_ticks
    /\ lpc = "done" =>
          /\ Len(gen.yielded) = num_ticks
          /\ Len(loaded.rows) = num_ticks
          /\ loaded.name = gen.symbol
          /\ \A k \in 1..num_ticks :
                /\ loaded.rows[k].index = gen.yielded[k].timestamp
                /\ loaded.rows[k].value = gen.yielded[k].price

\* three ticks were loaded, the last two at one timestamp, priced 2, 1, 2
C23_Witness ==
    /\ lpc = "done"
    /\ num_ticks = 3
    /\ Len(gen.yielded) = 3
    /\ loaded.rows = <<[index |-> 1, value |-> 2], [index |-> 2, value |-> 1],
                       [index |-> 2, value |-> 2]>>

====
